---- MODULE Spec2Model ----
(***************************************************************************)
(* Model of tools/deploy_llm_server.py: the LLM server deployer.           *)
(*                                                                         *)
(* One process runs main(): it builds an LLMServerDeployer (load_config),  *)
(* then deploy() runs five steps in sequence.  Every step launches         *)
(* external commands and blocks on each of them.  A state of the model is  *)
(* a point where the process is blocked on an external command (or has not *)
(* started, or has exited); an action is the return of that command        *)
(* together with all the code that runs up to the next blocking point.     *)
(*                                                                         *)
(* The messages of the source are Russian; they are written here in        *)
(* English, one constant tuple of strings per message of the source.       *)
(* Timestamps (time.time()) are left out of the event records.             *)
(***************************************************************************)
EXTENDS Integers, Sequences, FiniteSets, TLC

VARIABLES
    pc,           \* where the process is blocked
    file,         \* the configuration file found at config_path
    config,       \* self.config
    trace,        \* everything the process has done, in order
    inflight,     \* the external commands started and not yet returned
    i,            \* the loop index of download_models (0-based)
    exit_status,  \* <<>> while running, <<status>> once the process exited
    quota         \* how many more commands of this run may write output

vars == <<pc, file, config, trace, inflight, i, exit_status, quota>>

(***************************************************************************)
(* Bounds of the model.                                                    *)
(***************************************************************************)
MaxModels == 2   \* longest models list of a configuration file
MaxNoisy == 1    \* commands of one run that write to stdout or stderr

ModelNames == {"llama2:7b", "mistral:7b"}

\* The exit statuses of an external command: success and failure.
ExitStatuses == {0, 1}

ModelLists == UNION {[1..n -> ModelNames] : n \in 0..MaxModels}

(***************************************************************************)
(* Records of the trace.                                                   *)
(***************************************************************************)
\* An event printed to standard output; flush tells whether the print is
\* followed by sys.stdout.flush().
ProgressEvent(p, m) ==
    [ch |-> "stdout", type |-> "progress", progress |-> p, message |-> m,
     flush |-> TRUE]

\* Mutant: send_log without its sys.stdout.flush().
LogEvent_NoFlush(l, m) ==
    [ch |-> "stdout", type |-> "log", level |-> l, message |-> m,
     flush |-> FALSE]

LogEvent(l, m) ==
    [ch |-> "stdout", type |-> "log", level |-> l, message |-> m,
     flush |-> TRUE]

CompletionEvent(cfg) ==
    [ch |-> "stdout", type |-> "complete", success |-> TRUE,
     message |-> <<"LLM server deployed successfully">>, config |-> cfg,
     flush |-> FALSE]

ErrorEvent(m) ==
    [ch |-> "stdout", type |-> "error", success |-> FALSE, message |-> m,
     flush |-> FALSE]

\* The line feed.
LF == "\n"

\* json.dumps of a piece of text: a line feed is written as its escape.
JsonEscape(piece) == IF piece = LF THEN "\\n" ELSE piece

\* json.dumps of the message of a record, piece by piece.
JsonDumps(m) == [n \in 1..Len(m) |-> JsonEscape(m[n])]

\* print(json.dumps(...)): the text, then the line feed of print.
Printed(e) == Append(JsonDumps(e.message), LF)

\* An external process starts / exits.
ProcStart(cmd, check) ==
    [ch |-> "proc", type |-> "start", cmd |-> cmd, check |-> check]

ProcExit(cmd, r) ==
    [ch |-> "proc", type |-> "exit", cmd |-> cmd, rc |-> r.rc,
     so |-> r.so, se |-> r.se]

\* run_command hands a result to its caller / raises to its caller.
Returned(cmd, rc) == [ch |-> "ctl", type |-> "return", cmd |-> cmd, rc |-> rc]

Raised(cmd, rc) == [ch |-> "ctl", type |-> "raise", cmd |-> cmd, rc |-> rc]

\* deploy() calls a step / the step returns True or False.
StepEnter(s) == [ch |-> "ctl", type |-> "enter", step |-> s]

StepResult(s, ok) == [ch |-> "ctl", type |-> "result", step |-> s, ok |-> ok]

\* The unit file is written / the process sleeps.
HostWrite(path, host, port, ok) ==
    [ch |-> "host", type |-> "write", path |-> path,
     env |-> <<"OLLAMA_HOST=", host, ":", ToString(port)>>, ok |-> ok]

HostSleep(secs) == [ch |-> "host", type |-> "sleep", secs |-> secs]

(***************************************************************************)
(* Configuration (load_config).                                            *)
(***************************************************************************)
default_config ==
    [llm_type |-> "ollama",
     models |-> <<"llama2:7b">>,
     port |-> 11434,
     host |-> "0.0.0.0",
     install_path |-> "/opt/llm",
     data_path |-> "/opt/llm/data"]

ConfigKeys == DOMAIN default_config

\* The keys deploy() reads after construction.
UsedKeys == {"models", "port", "host"}

\* self.config before __init__ has assigned it.
NoConfig == [unset |-> TRUE]

\* A value a configuration file gives to key k (ml: its models list).
OverlayValue(k, ml) ==
    CASE k = "llm_type" -> "vllm"
      [] k = "models" -> ml
      [] k = "port" -> 9000
      [] k = "host" -> "10.0.0.5"
      [] k = "install_path" -> "/srv/llm"
      [] k = "data_path" -> "/srv/llm/data"
      [] OTHER -> "x"

\* The JSON objects over a set of keys.
Overlays(keys) ==
    {[k \in S |-> OverlayValue(k, ml)] : S \in SUBSET keys, ml \in ModelLists}

\* What can be found at config_path: nothing, a file that cannot be opened,
\* a file that is not JSON, JSON that is not an object, or a JSON object.
ConfigFiles(keys) ==
    {[kind |-> k, overlay |-> <<>>] :
        k \in {"absent", "unreadable", "malformed", "nonobject"}}
    \cup {[kind |-> "object", overlay |-> o] : o \in Overlays(keys)}

\* Mutant: the file is opened without the os.path.exists test.
PathExists_Always(f) == TRUE

\* os.path.exists(self.config_path)
PathExists(f) == f.kind # "absent"

\* open() (nothing there, or not readable), json.load() or the ** of a
\* non-mapping raises inside the try.
LoadRaises(f) == f.kind \in {"absent", "unreadable", "malformed", "nonobject"}

\* Mutant: the operands of the merge exchanged, {**config, **default_config}.
MergeConfig_DefaultsWin(d, o) ==
    [k \in (DOMAIN d) \cup (DOMAIN o) |-> IF k \in DOMAIN d THEN d[k] ELSE o[k]]

\* {**default_config, **config}
MergeConfig(d, o) ==
    [k \in (DOMAIN d) \cup (DOMAIN o) |-> IF k \in DOMAIN o THEN o[k] ELSE d[k]]

\* Mutant: the warning is sent with send_log, as an event of the stream.
LoggerWarning_AsLogEvent ==
    LogEvent("warn", <<"Config load error. Using the default.">>)

\* logger.warning(...): a record of the logging module, written to stderr.
LoggerWarning ==
    [ch |-> "stderr", type |-> "logging", level |-> "WARNING",
     message |-> <<"Config load error. Using the default.">>]

\* load_config: the configuration and what it logged.
load_config(f) ==
    IF PathExists(f)
    THEN IF LoadRaises(f)
         THEN [config |-> default_config, log |-> <<LoggerWarning>>]
         ELSE [config |-> MergeConfig(default_config, f.overlay), log |-> <<>>]
    ELSE [config |-> default_config, log |-> <<>>]

(***************************************************************************)
(* The steps of deploy() and the commands they run.                        *)
(***************************************************************************)
Req == "check_system_requirements"
Inst == "install_ollama"
Svc == "start_ollama_service"
Dl == "download_models"
Ver == "verify_installation"

Steps == <<Req, Inst, Svc, Dl, Ver>>

CmdPython == <<"python --version">>
CmdCurlVersion == <<"curl --version">>
CmdAptCurl == <<"sudo apt-get update && sudo apt-get install -y curl">>
CmdOllamaVersion == <<"ollama --version">>
CmdInstallScript == <<"curl -fsSL https://ollama.ai/install.sh | sh">>
CmdUseradd == <<"sudo useradd -r -s /bin/false -m -d /usr/share/ollama ollama">>
CmdMvUnit == <<"sudo mv /tmp/ollama.service /etc/systemd/system/">>
CmdDaemonReload == <<"sudo systemctl daemon-reload">>
CmdEnable == <<"sudo systemctl enable ollama">>
CmdStart == <<"sudo systemctl start ollama">>
CmdStatus == <<"sudo systemctl status ollama">>
CmdPull(model) == <<"ollama pull ", model>>
CmdHealth(cfg) == <<"curl -f http://localhost:", ToString(cfg.port), "/api/tags">>
CmdList == <<"ollama list">>

\* f"Installed models:\n{result.stdout}"
InventoryMessage == <<"Installed models:", LF, "stdout of ollama list">>

\* time.sleep(5)
SettleSeconds == 5

\* The exit status of sys.exit(1), and of a process whose main() returns.
ErrorExit == 1
NormalExit == 0

\* What an external command can do: its exit status, and whether it wrote
\* anything to stdout / stderr, while the quota of the run lasts.
Results ==
    {r \in [rc : ExitStatuses, so : BOOLEAN, se : BOOLEAN] :
        (r.so \/ r.se) => quota > 0}

Noise(r) == IF r.so \/ r.se THEN 1 ELSE 0

(***************************************************************************)
(* run_command.                                                            *)
(***************************************************************************)
\* Mutant: the check flag is ignored, every non-zero exit raises.
Raises_IgnoresCheck(check, rc) == rc # 0

\* subprocess.run(..., check=check) raises CalledProcessError.
Raises(check, rc) == check /\ rc # 0

\* Mutant: run_command without its first send_log.
run_command_begin_NoLog(tr, cmd, check) == Append(tr, ProcStart(cmd, check))

\* Up to the point where subprocess.run blocks: the log line, then the process.
run_command_begin(tr, cmd, check) ==
    tr \o <<LogEvent("info", <<"Executing command: ">> \o cmd),
            ProcStart(cmd, check)>>

\* From the exit of the process to the return (or raise) of run_command.
run_command_end(tr, cmd, check, r) ==
    IF Raises(check, r.rc)
    THEN [raised |-> TRUE,
          tr |-> tr \o <<ProcExit(cmd, r),
                         LogEvent("error", <<"Command execution error: ">> \o cmd),
                         Raised(cmd, r.rc)>>]
    ELSE [raised |-> FALSE,
          tr |-> tr \o <<ProcExit(cmd, r)>>
                    \o (IF r.so THEN <<LogEvent("info", <<"STDOUT: ">> \o cmd)>> ELSE <<>>)
                    \o (IF r.se THEN <<LogEvent("warn", <<"STDERR: ">> \o cmd)>> ELSE <<>>)
                    \o <<Returned(cmd, r.rc)>>]

(***************************************************************************)
(* deploy(): what follows the return of a step.                            *)
(***************************************************************************)
\* Mutant: the message of the install step pasted into the service step.
StepErrorMessage_CopyPaste(s) ==
    CASE s = Req -> <<"System requirements not met">>
      [] s = Inst -> <<"Ollama install error">>
      [] s = Svc -> <<"Ollama install error">>
      [] s = Dl -> <<"Model download error">>
      [] s = Ver -> <<"Install verification error">>

\* The message of the exception deploy() raises when a step returns False.
StepErrorMessage(s) ==
    CASE s = Req -> <<"System requirements not met">>
      [] s = Inst -> <<"Ollama install error">>
      [] s = Svc -> <<"Service start error">>
      [] s = Dl -> <<"Model download error">>
      [] s = Ver -> <<"Install verification error">>

\* Mutant: the result of a step is not looked at.
StepFailed_Never(ok) == FALSE

\* "if not self.step(): raise Exception(...)"
StepFailed(ok) == ~ok

\* Mutant: the command is started in the background (Popen) and the one
\* before it is not waited for.
Launch_Background(tr, cmd, check, next) ==
    /\ trace' = run_command_begin(tr, cmd, check)
    /\ inflight' = inflight \o <<[cmd |-> cmd, check |-> check]>>
    /\ pc' = next
    /\ exit_status' = exit_status

\* The process blocks in subprocess.run on cmd.
Launch(tr, cmd, check, next) ==
    /\ trace' = run_command_begin(tr, cmd, check)
    /\ inflight' = <<[cmd |-> cmd, check |-> check]>>
    /\ pc' = next
    /\ exit_status' = exit_status

\* Mutant: the except branch without sys.exit(1): main() returns.
DeployFail_NoSysExit(tr, msg) ==
    /\ trace' = Append(tr, ErrorEvent(msg))
    /\ inflight' = <<>>
    /\ pc' = "exited"
    /\ exit_status' = <<NormalExit>>
    /\ i' = i

\* Mutant: the last progress event is emitted on the failure path too.
DeployFail_ReportsDone(tr, msg) ==
    /\ trace' = tr \o <<ProgressEvent(100, <<"Deployment finished successfully">>),
                        ErrorEvent(msg)>>
    /\ inflight' = <<>>
    /\ pc' = "exited"
    /\ exit_status' = <<ErrorExit>>
    /\ i' = i

\* The except branch of deploy(): the error event, then sys.exit(1).
DeployFail(tr, msg) ==
    /\ trace' = Append(tr, ErrorEvent(msg))
    /\ inflight' = <<>>
    /\ pc' = "exited"
    /\ exit_status' = <<ErrorExit>>
    /\ i' = i

\* Mutant: the completion event printed before the last progress event.
DeployDone_ProgressLast(tr) ==
    /\ trace' = tr \o <<CompletionEvent(config),
                        ProgressEvent(100, <<"Deployment finished successfully">>)>>
    /\ inflight' = <<>>
    /\ pc' = "exited"
    /\ exit_status' = <<NormalExit>>
    /\ i' = i

\* Mutant: the completion event carries the defaults, not self.config.
DeployDone_EchoesDefaults(tr) ==
    /\ trace' = tr \o <<ProgressEvent(100, <<"Deployment finished successfully">>),
                        CompletionEvent(default_config)>>
    /\ inflight' = <<>>
    /\ pc' = "exited"
    /\ exit_status' = <<NormalExit>>
    /\ i' = i

\* The end of the try block of deploy(): main() returns.
DeployDone(tr) ==
    /\ trace' = tr \o <<ProgressEvent(100, <<"Deployment finished successfully">>),
                        CompletionEvent(config)>>
    /\ inflight' = <<>>
    /\ pc' = "exited"
    /\ exit_status' = <<NormalExit>>
    /\ i' = i

\* verify_installation up to its first command.
BeginVerify(tr) ==
    /\ Launch(tr \o <<StepEnter(Ver), ProgressEvent(95, <<"Verifying the installation">>)>>,
              CmdHealth(config), TRUE, "ver_health")
    /\ i' = i

\* Mutant: the share of a model is taken on the scale 0..100, not on the
\* band of 30 above 60.
ModelProgress_FullScale(k, n) == 60 + ((100 * (k + 1)) \div n)

\* Mutant: the index of the model is used, not the index plus one.
ModelProgress_ZeroBased(k, n) == 60 + ((30 * k) \div n)

\* int(60 + (30 * (i + 1) / len(models)))
ModelProgress(k, n) == 60 + ((30 * (k + 1)) \div n)

\* Mutant: the loop of download_models walks the list from its end.
PullModel_Backwards(tr, k) ==
    LET n == Len(config.models)
        model == config.models[n - k]
    IN /\ Launch(tr \o <<ProgressEvent(ModelProgress(k, n), <<"Downloading model ", model>>),
                         LogEvent("info", <<"Downloading model: ", model>>)>>,
                 CmdPull(model), TRUE, "dl_pull")
       /\ i' = k

\* The body of the loop of download_models for index k, up to the pull.
PullModel(tr, k) ==
    LET model == config.models[k + 1]
        n == Len(config.models)
    IN /\ Launch(tr \o <<ProgressEvent(ModelProgress(k, n), <<"Downloading model ", model>>),
                         LogEvent("info", <<"Downloading model: ", model>>)>>,
                 CmdPull(model), TRUE, "dl_pull")
       /\ i' = k

\* Mutant: the download and the service start in the wrong order.
NextStep_Swapped(s) ==
    CASE s = Req -> Inst
      [] s = Inst -> Dl
      [] s = Dl -> Svc
      [] s = Svc -> Ver
      [] s = Ver -> "done"

\* The step after step s in deploy(), or the end of deploy().
NextStep(s) ==
    CASE s = Req -> Inst
      [] s = Inst -> Svc
      [] s = Svc -> Dl
      [] s = Dl -> Ver
      [] s = Ver -> "done"

RECURSIVE StepReturn(_, _, _)

\* Mutant: the share of a model is computed before the loop, and the
\* division by the length of an empty list makes the step fail.
BeginDownload_DividesFirst(tr) ==
    LET t == tr \o <<StepEnter(Dl), ProgressEvent(60, <<"Downloading LLM models">>)>>
    IN IF Len(config.models) = 0
       THEN StepReturn(t, Dl, FALSE)
       ELSE PullModel(t, 0)

\* download_models up to its first command (or to its return, with no model).
BeginDownload(tr) ==
    LET t == tr \o <<StepEnter(Dl), ProgressEvent(60, <<"Downloading LLM models">>)>>
    IN IF Len(config.models) = 0
       THEN StepReturn(t, Dl, TRUE)
       ELSE PullModel(t, 0)

\* start_ollama_service up to its first command.
BeginService(tr) ==
    /\ Launch(tr \o <<StepEnter(Svc), ProgressEvent(40, <<"Starting the Ollama service">>),
                      LogEvent("info", <<"Starting the Ollama server">>)>>,
              CmdUseradd, FALSE, "svc_useradd")
    /\ i' = i

\* install_ollama up to its first command.
BeginInstall(tr) ==
    /\ Launch(tr \o <<StepEnter(Inst), ProgressEvent(20, <<"Installing Ollama">>)>>,
              CmdOllamaVersion, FALSE, "inst_probe")
    /\ i' = i

\* deploy() calls the step named s.
BeginStep(tr, s) ==
    CASE s = Inst -> BeginInstall(tr)
      [] s = Svc -> BeginService(tr)
      [] s = Dl -> BeginDownload(tr)
      [] s = Ver -> BeginVerify(tr)
      [] s = "done" -> DeployDone(tr)

\* Step s returns ok to deploy(), which raises or goes on.
StepReturn(tr, s, ok) ==
    LET t == Append(tr, StepResult(s, ok))
    IN IF StepFailed(ok)
       THEN DeployFail(t, StepErrorMessage(s))
       ELSE BeginStep(t, NextStep(s))

(***************************************************************************)
(* Actions.                                                                *)
(***************************************************************************)
\* The run-time frame of every action after construction.
Frame(r) ==
    /\ file' = file
    /\ config' = config
    /\ quota' = quota - Noise(r)

Quiet == [rc |-> 0, so |-> FALSE, se |-> FALSE]

\* main() up to deployer.deploy(): LLMServerDeployer(config_path).
Construct ==
    /\ pc = "main"
    /\ pc' = "constructed"
    /\ config' = load_config(file).config
    /\ trace' = trace \o load_config(file).log
    /\ UNCHANGED <<file, inflight, i, exit_status, quota>>

\* deploy() and check_system_requirements up to the interpreter probe
\* (subprocess.check_output, not run_command).
deploy ==
    /\ pc = "constructed"
    /\ trace' = trace \o <<ProgressEvent(0, <<"Starting LLM server deployment">>),
                           StepEnter(Req),
                           ProgressEvent(5, <<"Checking system requirements">>),
                           ProcStart(CmdPython, TRUE)>>
    /\ inflight' = <<[cmd |-> CmdPython, check |-> TRUE]>>
    /\ pc' = "req_python"
    /\ UNCHANGED <<i, exit_status>>
    /\ Frame(Quiet)

\* check_system_requirements: the interpreter probe returns.
PythonProbeDone ==
    /\ pc = "req_python"
    /\ \E rc \in ExitStatuses :
          LET r == [rc |-> rc, so |-> rc = 0, se |-> FALSE]
              t == Append(trace, ProcExit(CmdPython, r))
          IN IF rc = 0
             THEN /\ Launch(Append(t, LogEvent("info", <<"Python version">>)),
                            CmdCurlVersion, TRUE, "req_curl")
                  /\ i' = i
             ELSE StepReturn(Append(t, LogEvent("error", <<"Python not found">>)),
                             Req, FALSE)
    /\ Frame(Quiet)

\* check_system_requirements: "curl --version" returns.
CurlProbeDone ==
    /\ pc = "req_curl"
    /\ \E r \in Results :
          LET e == run_command_end(trace, CmdCurlVersion, TRUE, r)
          IN /\ IF e.raised
                THEN /\ Launch(Append(e.tr, LogEvent("warn", <<"curl not found, trying to install">>)),
                               CmdAptCurl, TRUE, "req_apt")
                     /\ i' = i
                ELSE StepReturn(Append(e.tr, LogEvent("info", <<"curl available">>)),
                                Req, TRUE)
             /\ Frame(r)

\* Mutant: after the install, curl is probed again and the step follows
\* the outcome of that probe.
AptDone_Reprobes ==
    /\ pc = "req_apt"
    /\ \E r \in Results, again \in ExitStatuses :
          LET e == run_command_end(trace, CmdAptCurl, TRUE, r)
              p == run_command_end(run_command_begin(e.tr, CmdCurlVersion, TRUE),
                                   CmdCurlVersion, TRUE,
                                   [rc |-> again, so |-> FALSE, se |-> FALSE])
          IN /\ IF e.raised
                THEN StepReturn(Append(e.tr, LogEvent("error", <<"Could not install curl">>)),
                                Req, FALSE)
                ELSE IF p.raised
                THEN StepReturn(Append(p.tr, LogEvent("error", <<"Could not install curl">>)),
                                Req, FALSE)
                ELSE StepReturn(p.tr, Req, TRUE)
             /\ Frame(r)

\* Mutant: a failed install of curl is not looked at.
AptDone_IgnoresFailure ==
    /\ pc = "req_apt"
    /\ \E r \in Results :
          LET e == run_command_end(trace, CmdAptCurl, TRUE, r)
          IN /\ StepReturn(e.tr, Req, TRUE)
             /\ Frame(r)

\* check_system_requirements: the apt-get install of curl returns.
AptDone ==
    /\ pc = "req_apt"
    /\ \E r \in Results :
          LET e == run_command_end(trace, CmdAptCurl, TRUE, r)
          IN /\ IF e.raised
                THEN StepReturn(Append(e.tr, LogEvent("error", <<"Could not install curl">>)),
                                Req, FALSE)
                ELSE StepReturn(e.tr, Req, TRUE)
             /\ Frame(r)

\* Mutant: the return code of the first probe is not looked at.
InstProbeDone_AlwaysInstalls ==
    /\ pc = "inst_probe"
    /\ \E r \in Results :
          LET e == run_command_end(trace, CmdOllamaVersion, FALSE, r)
          IN /\ Launch(Append(e.tr, LogEvent("info", <<"Downloading and installing Ollama">>)),
                       CmdInstallScript, TRUE, "inst_script")
             /\ i' = i
             /\ Frame(r)

\* install_ollama: the first "ollama --version" (check=False) returns.
InstProbeDone ==
    /\ pc = "inst_probe"
    /\ \E r \in Results :
          LET e == run_command_end(trace, CmdOllamaVersion, FALSE, r)
          IN /\ IF e.raised
                THEN StepReturn(Append(e.tr, LogEvent("error", <<"Ollama install error">>)),
                                Inst, FALSE)
                ELSE IF r.rc = 0
                THEN StepReturn(Append(e.tr, LogEvent("info", <<"Ollama already installed">>)),
                                Inst, TRUE)
                ELSE /\ Launch(Append(e.tr, LogEvent("info", <<"Downloading and installing Ollama">>)),
                               CmdInstallScript, TRUE, "inst_script")
                     /\ i' = i
             /\ Frame(r)

\* Mutant: success is reported after the script, with no second probe.
InstScriptDone_SkipsVerify ==
    /\ pc = "inst_script"
    /\ \E r \in Results :
          LET e == run_command_end(trace, CmdInstallScript, TRUE, r)
          IN /\ IF e.raised
                THEN StepReturn(Append(e.tr, LogEvent("error", <<"Ollama install error">>)),
                                Inst, FALSE)
                ELSE StepReturn(Append(e.tr, LogEvent("info", <<"Ollama installed successfully">>)),
                                Inst, TRUE)
             /\ Frame(r)

\* install_ollama: the install script returns.
InstScriptDone ==
    /\ pc = "inst_script"
    /\ \E r \in Results :
          LET e == run_command_end(trace, CmdInstallScript, TRUE, r)
          IN /\ IF e.raised
                THEN StepReturn(Append(e.tr, LogEvent("error", <<"Ollama install error">>)),
                                Inst, FALSE)
                ELSE /\ Launch(e.tr, CmdOllamaVersion, TRUE, "inst_verify")
                     /\ i' = i
             /\ Frame(r)

\* install_ollama: the second "ollama --version" returns.
InstVerifyDone ==
    /\ pc = "inst_verify"
    /\ \E r \in Results :
          LET e == run_command_end(trace, CmdOllamaVersion, TRUE, r)
          IN /\ IF e.raised
                THEN StepReturn(Append(e.tr, LogEvent("error", <<"Ollama install error">>)),
                                Inst, FALSE)
                ELSE StepReturn(Append(e.tr, LogEvent("info", <<"Ollama installed successfully">>)),
                                Inst, TRUE)
             /\ Frame(r)

\* Mutant: the except branch removes the unit file before it returns.
ServiceFail_Cleanup(tr) ==
    LET rm == <<"sudo rm -f /etc/systemd/system/ollama.service">>
    IN StepReturn(tr \o <<LogEvent("error", <<"Ollama start error">>),
                           ProcStart(rm, FALSE),
                           ProcExit(rm, Quiet),
                           Returned(rm, 0)>>,
                  Svc, FALSE)

\* Mutant: the except branch returns False without its log.
ServiceFail_Silent(tr) == StepReturn(tr, Svc, FALSE)

\* start_ollama_service: the except branch.
ServiceFail(tr) ==
    StepReturn(Append(tr, LogEvent("error", <<"Ollama start error">>)), Svc, FALSE)

\* Mutant: useradd is run in the default mode, check=True.
UseraddDone_Checks ==
    /\ pc = "svc_useradd"
    /\ \E r \in Results, written \in BOOLEAN :
          LET e == run_command_end(trace, CmdUseradd, TRUE, r)
              t == Append(e.tr, HostWrite("/tmp/ollama.service", config.host,
                                          config.port, written))
          IN /\ IF e.raised
                THEN ServiceFail(e.tr)
                ELSE IF written
                THEN /\ Launch(t, CmdMvUnit, TRUE, "svc_mv")
                     /\ i' = i
                ELSE ServiceFail(t)
             /\ Frame(r)

\* start_ollama_service: useradd (check=False) returns, the unit file is
\* written to /tmp (open/write can raise), "sudo mv" starts.
UseraddDone ==
    /\ pc = "svc_useradd"
    /\ \E r \in Results, written \in BOOLEAN :
          LET e == run_command_end(trace, CmdUseradd, FALSE, r)
              t == Append(e.tr, HostWrite("/tmp/ollama.service", config.host,
                                          config.port, written))
          IN /\ IF e.raised
                THEN ServiceFail(e.tr)
                ELSE IF written
                THEN /\ Launch(t, CmdMvUnit, TRUE, "svc_mv")
                     /\ i' = i
                ELSE ServiceFail(t)
             /\ Frame(r)

\* start_ollama_service: a command of the try block returns and the next
\* one (after the records in between) starts.
ServiceCommandDone(cmd, between, nextCmd, next) ==
    \E r \in Results :
        LET e == run_command_end(trace, cmd, TRUE, r)
        IN /\ IF e.raised
              THEN ServiceFail(e.tr)
              ELSE /\ Launch(e.tr \o between, nextCmd, TRUE, next)
                   /\ i' = i
           /\ Frame(r)

\* "sudo mv" returns, "systemctl daemon-reload" starts.
MvDone ==
    /\ pc = "svc_mv"
    /\ ServiceCommandDone(CmdMvUnit, <<>>, CmdDaemonReload, "svc_reload")

\* "systemctl daemon-reload" returns, "systemctl enable" starts.
ReloadDone ==
    /\ pc = "svc_reload"
    /\ ServiceCommandDone(CmdDaemonReload, <<>>, CmdEnable, "svc_enable")

\* "systemctl enable" returns, "systemctl start" starts.
EnableDone ==
    /\ pc = "svc_enable"
    /\ ServiceCommandDone(CmdEnable, <<>>, CmdStart, "svc_start")

\* Mutant: the status is asked for right after the start, with no sleep.
StartDone_NoSettle ==
    /\ pc = "svc_start"
    /\ ServiceCommandDone(CmdStart, <<>>, CmdStatus, "svc_status")

\* "systemctl start" returns; time.sleep(5); "systemctl status" starts.
StartDone ==
    /\ pc = "svc_start"
    /\ ServiceCommandDone(CmdStart, <<HostSleep(SettleSeconds)>>, CmdStatus, "svc_status")

\* Mutant: "systemctl status" never returns.
StatusDone_Hangs ==
    /\ pc = "svc_status"
    /\ UNCHANGED vars

\* start_ollama_service: "systemctl status" returns.
StatusDone ==
    /\ pc = "svc_status"
    /\ \E r \in Results :
          LET e == run_command_end(trace, CmdStatus, TRUE, r)
          IN /\ IF e.raised
                THEN ServiceFail(e.tr)
                ELSE StepReturn(Append(e.tr, LogEvent("info", <<"Ollama service started">>)),
                                Svc, TRUE)
             /\ Frame(r)

\* Mutant: a failed pull is logged and the loop goes on (skip and continue).
PullDone_SkipAndContinue ==
    /\ pc = "dl_pull"
    /\ \E r \in Results :
          LET model == config.models[i + 1]
              e == run_command_end(trace, CmdPull(model), TRUE, r)
              t == Append(e.tr, IF e.raised
                                THEN LogEvent("error", <<"Model download error ", model>>)
                                ELSE LogEvent("info", <<"Model downloaded ", model>>))
          IN /\ IF i + 1 < Len(config.models)
                THEN PullModel(t, i + 1)
                ELSE StepReturn(t, Dl, TRUE)
             /\ Frame(r)

\* download_models: the pull of model i returns.
PullDone ==
    /\ pc = "dl_pull"
    /\ \E r \in Results :
          LET model == config.models[i + 1]
              e == run_command_end(trace, CmdPull(model), TRUE, r)
          IN /\ IF e.raised
                THEN StepReturn(Append(e.tr, LogEvent("error", <<"Model download error ", model>>)),
                                Dl, FALSE)
                ELSE LET t == Append(e.tr, LogEvent("info", <<"Model downloaded ", model>>))
                     IN IF i + 1 < Len(config.models)
                        THEN PullModel(t, i + 1)
                        ELSE StepReturn(t, Dl, TRUE)
             /\ Frame(r)

\* verify_installation: the except branch.
VerifyFail(tr) ==
    StepReturn(Append(tr, LogEvent("error", <<"Install verification error">>)), Ver, FALSE)

\* verify_installation: the health check returns.
HealthDone ==
    /\ pc = "ver_health"
    /\ \E r \in Results :
          LET e == run_command_end(trace, CmdHealth(config), TRUE, r)
          IN /\ IF e.raised
                THEN VerifyFail(e.tr)
                ELSE /\ Launch(e.tr, CmdList, TRUE, "ver_list")
                     /\ i' = i
             /\ Frame(r)

\* verify_installation: "ollama list" returns.
ListDone ==
    /\ pc = "ver_list"
    /\ \E r \in Results :
          LET e == run_command_end(trace, CmdList, TRUE, r)
          IN /\ IF e.raised
                THEN VerifyFail(e.tr)
                ELSE StepReturn(e.tr \o <<LogEvent("info", InventoryMessage),
                                          LogEvent("info", <<"Installation finished successfully">>)>>,
                                Ver, TRUE)
             /\ Frame(r)

(***************************************************************************)
(* Specifications.                                                         *)
(***************************************************************************)
Start(files, q) ==
    /\ pc = "main"
    /\ file \in files
    /\ config = NoConfig
    /\ trace = <<>>
    /\ inflight = <<>>
    /\ i = 0
    /\ exit_status = <<>>
    /\ quota = q

\* Scenario B of the specification: two models and a port.
ScenarioB ==
    [kind |-> "object",
     overlay |-> [models |-> <<"llama2:7b", "mistral:7b">>, port |-> 9000]]

\* The files of the runs in which commands write output.
NoisyFiles == {ScenarioB}

\* The runs of the deployer: over every file that sets keys deploy() reads,
\* with commands that write nothing; and over NoisyFiles, with up to
\* MaxNoisy commands that write to stdout, to stderr or to both.
Init ==
    \/ Start(ConfigFiles(UsedKeys), 0)
    \/ Start(NoisyFiles, MaxNoisy)

Next ==
    \/ Construct
    \/ deploy
    \/ PythonProbeDone
    \/ CurlProbeDone
    \/ AptDone
    \/ InstProbeDone
    \/ InstScriptDone
    \/ InstVerifyDone
    \/ UseraddDone
    \/ MvDone
    \/ ReloadDone
    \/ EnableDone
    \/ StartDone
    \/ StatusDone
    \/ PullDone
    \/ HealthDone
    \/ ListDone

Spec == Init /\ [][Next]_vars

\* The runs in which every external command returns: the process is
\* sequential, so whenever a command has returned (or none is awaited) it
\* takes its next step.
SpecLive == Init /\ [][Next]_vars /\ WF_vars(Next)

\* Construction alone, over every key of the configuration.
InitConfig == Start(ConfigFiles(ConfigKeys \cup {"comment"}), 0)

NextConfig == Construct

SpecConfig == InitConfig /\ [][NextConfig]_vars

(***************************************************************************)
(* The output stream and the run, read off the trace.                      *)
(***************************************************************************)
\* The events written to standard output, in order.
Out == SelectSeq(trace, LAMBDA e : e.ch = "stdout")

IsTerminal(e) == e.type \in {"complete", "error"}

Exited == pc = "exited"

\* The positions of the trace holding a record of the given type.
At(type) == {k \in 1..Len(trace) : trace[k].type = type}

\* The steps deploy() has called, in order.
Entered ==
    LET es == SelectSeq(trace, LAMBDA e : e.type = "enter")
    IN [k \in 1..Len(es) |-> es[k].step]

\* Step s returned ok.
Reported(s, ok) ==
    \E k \in At("result") : trace[k].step = s /\ trace[k].ok = ok

SomeStepFailed == \E k \in At("result") : ~trace[k].ok

AllStepsSucceeded == \A n \in 1..Len(Steps) : Reported(Steps[n], TRUE)

LastEvent == Out[Len(Out)]

(***************************************************************************)
(* C1.  The output stream of a run is progress and log events followed by  *)
(* exactly one terminal event (complete or error): no event follows a      *)
(* terminal event, a stream never holds both, a terminal event is on the   *)
(* stream exactly when the process has exited.                             *)
(***************************************************************************)
C1_OneTerminalEventLast ==
    /\ \A k \in 1..Len(Out) :
          IF k < Len(Out)
          THEN Out[k].type \in {"progress", "log"}
          ELSE Exited <=> IsTerminal(Out[k])
    /\ Exited => Len(Out) > 0

\* A successful run has ended, with log events before its terminal event.
C1_Witness ==
    /\ Exited
    /\ Len(Out) > 1
    /\ LastEvent.type = "complete"
    /\ \E k \in 1..Len(Out) : Out[k].type = "log"

(***************************************************************************)
(* C2.  The exit status is 0 exactly when the terminal event is complete,  *)
(* exactly when all five steps reported success; when a step reports       *)
(* failure the terminal event is error and the exit status is 1.           *)
(***************************************************************************)
C2_ExitStatusIffComplete ==
    /\ Exited =>
          /\ exit_status \in {<<0>>, <<1>>}
          /\ (exit_status = <<0>>) <=> (LastEvent.type = "complete")
          /\ (LastEvent.type = "complete") <=> AllStepsSucceeded
    /\ SomeStepFailed =>
          /\ Exited
          /\ LastEvent.type = "error"
          /\ exit_status = <<1>>

\* A run that exits 1 after the verification, the last step, reported failure.
C2_Witness ==
    /\ Exited
    /\ Reported(Ver, FALSE)
    /\ exit_status = <<1>>

(***************************************************************************)
(* C3.  The steps are entered in the fixed order requirements, install,    *)
(* service, download, verification: each at most once, each only after     *)
(* the step before it has reported success, never an earlier one again;    *)
(* the run ends only after a failure or after the last step.               *)
(***************************************************************************)
C3_StepsInFixedOrder ==
    /\ Len(Entered) <= Len(Steps)
    /\ \A n \in 1..Len(Entered) :
          /\ Entered[n] = Steps[n]
          /\ n > 1 =>
                \E e \in At("enter"), r \in At("result") :
                    /\ trace[e].step = Steps[n]
                    /\ trace[r].step = Steps[n - 1]
                    /\ trace[r].ok
                    /\ r < e
    /\ Exited => SomeStepFailed \/ Len(Entered) = Len(Steps)

\* The verification has been entered: every step has been.
C3_Witness == Len(Entered) = Len(Steps) /\ ~Exited

(***************************************************************************)
(* C4.  When a step reports failure the run fails at once: nothing is      *)
(* started and nothing is emitted after the failure but one error event,   *)
(* the only error event of the stream, and the process exits with 1.       *)
(***************************************************************************)
C4_FirstFailureEndsRun ==
    \A k \in At("result") :
        ~trace[k].ok =>
            /\ Len(trace) = k + 1
            /\ trace[k + 1].type = "error"
            /\ Cardinality(At("error")) = 1
            /\ trace[k].step = Entered[Len(Entered)]
            /\ Exited
            /\ exit_status = <<1>>

\* The service step failed, after commands had been run.
C4_Witness ==
    /\ Reported(Svc, FALSE)
    /\ \E k \in At("raise") : trace[k].cmd = CmdEnable

(***************************************************************************)
(* C5.  The message of the error event names the step that failed: it is   *)
(* the message of the last step entered, the five messages differ, and     *)
(* when "systemctl status" fails after the settling delay the message is   *)
(* the one of the service start and the exit status is 1.                  *)
(***************************************************************************)
C5_ErrorMessageNamesStep ==
    /\ \A k \in At("error") :
          /\ Len(Entered) > 0
          /\ trace[k].message = StepErrorMessage(Entered[Len(Entered)])
          /\ \A n \in 1..Len(Steps) :
                n # Len(Entered) => trace[k].message # StepErrorMessage(Steps[n])
    /\ \A k \in At("raise") :
          trace[k].cmd = CmdStatus =>
              /\ \E s \in At("sleep") : s < k
              /\ LastEvent = ErrorEvent(<<"Service start error">>)
              /\ exit_status = <<1>>

\* "systemctl status" exited non-zero and the run has ended.
C5_Witness ==
    /\ Exited
    /\ \E k \in At("raise") : trace[k].cmd = CmdStatus

(***************************************************************************)
(* C6.  The configuration is read-only once resolved: no step after the    *)
(* construction changes self.config, and the config field of the           *)
(* completion event is that configuration, with the models list of the     *)
(* file (the empty one included) when the file sets it.                    *)
(***************************************************************************)
C6_ConfigReadOnlyAndEchoed ==
    /\ [][pc # "main" => config' = config]_vars
    /\ [](\A k \in At("complete") :
            /\ trace[k].config = config
            /\ (file.kind = "object" /\ "models" \in DOMAIN file.overlay)
                  => trace[k].config.models = file.overlay.models)

\* Scenario A: a run with models set to [] has completed.
C6_Witness ==
    /\ file.kind = "object"
    /\ "models" \in DOMAIN file.overlay
    /\ file.overlay.models = <<>>
    /\ \E k \in At("complete") : trace[k].config.models = <<>>

(***************************************************************************)
(* C7.  For a JSON object over a subset of the six keys, load_config       *)
(* returns the defaults with exactly the keys of the object replaced by    *)
(* its values; the object of scenario B gives port 9000, the default host  *)
(* and its two models in order.                                            *)
(***************************************************************************)
C7_OverlayReplacesExactlyItsKeys ==
    (pc = "constructed" /\ file.kind = "object" /\ DOMAIN file.overlay \subseteq ConfigKeys) =>
        /\ DOMAIN config = ConfigKeys
        /\ \A k \in ConfigKeys :
              config[k] = IF k \in DOMAIN file.overlay
                          THEN file.overlay[k]
                          ELSE default_config[k]
        /\ file = ScenarioB =>
              /\ config.port = 9000
              /\ config.host = "0.0.0.0"
              /\ config.models = <<"llama2:7b", "mistral:7b">>

\* The file of scenario B has been loaded.
C7_Witness ==
    /\ pc = "constructed"
    /\ file = ScenarioB
    /\ config.port = 9000
    /\ Len(config.models) = 2

(***************************************************************************)
(* The run goes on into its first step after the construction, and an      *)
(* error event comes only from a step that reported failure.               *)
(***************************************************************************)
ProceedsToFirstStep ==
    /\ pc = "constructed" => ENABLED deploy
    /\ pc \notin {"main", "constructed"} => (Len(Entered) > 0 /\ Entered[1] = Req)
    /\ At("error") # {} => SomeStepFailed

\* The records of the logging module.
Logged == At("logging")

(***************************************************************************)
(* C8, as claimed.  With the configuration path absent, or present but not *)
(* readable, load_config returns the defaults and emits no warning and no  *)
(* error, and the run proceeds into its first step.                        *)
(***************************************************************************)
C8_SilentDefaultsWhenAbsentOrUnreadable ==
    (file.kind \in {"absent", "unreadable"} /\ pc # "main") =>
        /\ config = default_config
        /\ Logged = {}
        /\ pc = "constructed" => trace = <<>>
        /\ ProceedsToFirstStep

(***************************************************************************)
(* C8, amended.  With the path absent, load_config returns the defaults    *)
(* and emits nothing; with the path present but not readable, it returns   *)
(* the defaults and logs one warning through the logging module; in both   *)
(* cases the run proceeds into its first step.                             *)
(***************************************************************************)
C8_DefaultsWhenAbsentOrUnreadable ==
    (file.kind \in {"absent", "unreadable"} /\ pc # "main") =>
        /\ config = default_config
        /\ file.kind = "absent" =>
              /\ Logged = {}
              /\ pc = "constructed" => trace = <<>>
        /\ file.kind = "unreadable" =>
              /\ Logged = {1}
              /\ trace[1].ch = "stderr"
              /\ trace[1].level = "WARNING"
              /\ pc = "constructed" => Len(trace) = 1
        /\ ProceedsToFirstStep

\* An unreadable file: the warning is logged and the first step is entered.
C8_Witness ==
    /\ file.kind = "unreadable"
    /\ Logged # {}
    /\ Len(Entered) > 0

(***************************************************************************)
(* C9, as claimed.  With a malformed configuration file, load_config       *)
(* emits a warn-level log event on the output stream, the configuration    *)
(* is the defaults, and the run proceeds into its first step.              *)
(***************************************************************************)
C9_WarnLogEventWhenMalformed ==
    (file.kind \in {"malformed", "nonobject"} /\ pc # "main") =>
        /\ \E k \in At("log") :
              /\ trace[k].ch = "stdout"
              /\ trace[k].level = "warn"
              /\ \A j \in At("progress") : k < j
        /\ config = default_config
        /\ ProceedsToFirstStep

(***************************************************************************)
(* C9, amended.  With a malformed configuration file, load_config logs one *)
(* warning through the logging module, on standard error and not as an     *)
(* event of the output stream; the configuration is the defaults and the   *)
(* run proceeds into its first step: a bad file alone gives no error event *)
(* and no exit status 1.                                                   *)
(***************************************************************************)
C9_LoggerWarningWhenMalformed ==
    (file.kind \in {"malformed", "nonobject"} /\ pc # "main") =>
        /\ Logged = {1}
        /\ trace[1].ch = "stderr"
        /\ trace[1].level = "WARNING"
        /\ Len(Out) > 0 => Out[1] = ProgressEvent(0, <<"Starting LLM server deployment">>)
        /\ config = default_config
        /\ ProceedsToFirstStep
        /\ exit_status = <<1>> => SomeStepFailed

\* A run with a malformed file has completed with exit status 0.
C9_Witness ==
    /\ file.kind = "malformed"
    /\ Exited
    /\ exit_status = <<0>>
    /\ Logged # {}

(***************************************************************************)
(* C10.  run_command with check=True raises to its caller whenever the     *)
(* command exits non-zero and returns a result only on exit 0; with        *)
(* check=False it never raises on a non-zero exit and returns a result     *)
(* that carries the exit status.                                           *)
(***************************************************************************)
C10_RaisesOnlyInCheckMode ==
    \A k \in At("exit") :
        trace[k].cmd # CmdPython =>
            LET js == {j \in (k + 1)..Len(trace) : trace[j].type \in {"return", "raise"}}
                j == CHOOSE m \in js : \A n \in js : m <= n
            IN /\ trace[k - 1].type = "start"
               /\ trace[k - 1].cmd = trace[k].cmd
               /\ js # {}
               /\ trace[j].cmd = trace[k].cmd
               /\ trace[j].rc = trace[k].rc
               /\ trace[j].type = IF trace[k - 1].check /\ trace[k].rc # 0
                                  THEN "raise"
                                  ELSE "return"

\* A check=False command has returned a non-zero status, and later a
\* check=True command has raised.
C10_Witness ==
    \E k \in At("return"), j \in At("raise") :
        /\ trace[k].rc # 0
        /\ k < j

(***************************************************************************)
(* run_command, read off the trace.                                        *)
(***************************************************************************)
\* The exits of the processes run_command started (the interpreter probe
\* is started with subprocess.check_output).
CommandExits == {k \in At("exit") : trace[k].cmd # CmdPython}

\* Where run_command hands over to its caller after the exit at k.
ReturnPoint(k) ==
    LET js == {j \in (k + 1)..Len(trace) : trace[j].type \in {"return", "raise"}}
    IN CHOOSE m \in js : \A n \in js : m <= n

\* The log event at position m has the given level and message.
IsLog(m, level, message) ==
    /\ m \in 1..Len(trace)
    /\ trace[m].type = "log"
    /\ trace[m].level = level
    /\ trace[m].message = message

(***************************************************************************)
(* C11.  For every run_command call an info log event naming the command   *)
(* is emitted before the command runs, and the non-empty stdout (info) and *)
(* non-empty stderr (warn) of the command are each emitted as log events   *)
(* before control goes back to the caller, whatever the exit status and    *)
(* whether run_command returns or raises.                                  *)
(***************************************************************************)
C11_InvocationAndOutputLogged ==
    \A k \in CommandExits :
        LET cmd == trace[k].cmd
            j == ReturnPoint(k)
        IN /\ IsLog(k - 2, "info", <<"Executing command: ">> \o cmd)
           /\ trace[k].so =>
                 \E m \in (k + 1)..(j - 1) : IsLog(m, "info", <<"STDOUT: ">> \o cmd)
           /\ trace[k].se =>
                 \E m \in (k + 1)..(j - 1) : IsLog(m, "warn", <<"STDERR: ">> \o cmd)

(***************************************************************************)
(* C12, as claimed.  Every external process the deployer starts, the       *)
(* interpreter probe included, is preceded by a log event that records     *)
(* its invocation.                                                         *)
(***************************************************************************)
C12_EveryProcessLogged ==
    \A k \in At("start") :
        IsLog(k - 1, "info", <<"Executing command: ">> \o trace[k].cmd)

(***************************************************************************)
(* C12, amended.  Every process started through run_command is preceded    *)
(* by the log event that records its invocation; the interpreter probe is  *)
(* started with no log event before it, and only its outcome is logged.    *)
(***************************************************************************)
C12_RunCommandProcessesLogged ==
    \A k \in At("start") :
        IF trace[k].cmd = CmdPython
        THEN /\ \A m \in 1..(k - 1) : trace[m].type # "log"
             /\ (k + 1) \in At("exit") =>
                   \/ IsLog(k + 2, "info", <<"Python version">>)
                   \/ IsLog(k + 2, "error", <<"Python not found">>)
        ELSE IsLog(k - 1, "info", <<"Executing command: ">> \o trace[k].cmd)

\* The interpreter probe has returned and a run_command process has started.
C12_Witness ==
    \E k \in At("start"), j \in At("start") :
        /\ trace[k].cmd = CmdPython
        /\ trace[j].cmd = CmdCurlVersion
        /\ IsLog(k + 2, "info", <<"Python version">>)

(***************************************************************************)
(* The commands of a run, read off the trace.                              *)
(***************************************************************************)
\* The positions at which a process running cmd was started.
StartsOf(cmd) == {k \in At("start") : trace[k].cmd = cmd}

\* The positions at which run_command raised for cmd.
RaisesOf(cmd) == {k \in At("raise") : trace[k].cmd = cmd}

\* The positions at which run_command returned the result of cmd.
ReturnsOf(cmd) == {k \in At("return") : trace[k].cmd = cmd}

\* The run has ended with an error event and exit status 1.
EndedWithError ==
    /\ Exited
    /\ LastEvent.type = "error"
    /\ exit_status = <<ErrorExit>>

(***************************************************************************)
(* C13.  In the requirements check the install of curl through the package *)
(* manager is started exactly once when the curl probe fails and never     *)
(* when the probe succeeds; when that install fails the step reports       *)
(* failure, no later step is entered, and the run ends with an error event *)
(* and exit status 1.                                                      *)
(***************************************************************************)
C13_OneInstallAttemptOnProbeFailure ==
    /\ Cardinality(StartsOf(CmdAptCurl)) <= 1
    /\ \A k \in StartsOf(CmdAptCurl) : \E j \in RaisesOf(CmdCurlVersion) : j < k
    /\ \A j \in RaisesOf(CmdCurlVersion) : \E k \in StartsOf(CmdAptCurl) : j < k
    /\ ReturnsOf(CmdCurlVersion) # {} => StartsOf(CmdAptCurl) = {}
    /\ \A j \in RaisesOf(CmdAptCurl) :
          /\ Reported(Req, FALSE)
          /\ Entered = <<Req>>
          /\ \A k \in At("start") : k < j
          /\ EndedWithError

\* The curl probe failed, the install was attempted and failed too.
C13_Witness ==
    /\ RaisesOf(CmdCurlVersion) # {}
    /\ RaisesOf(CmdAptCurl) # {}
    /\ Exited

(***************************************************************************)
(* install_ollama, read off the trace.                                     *)
(***************************************************************************)
\* The position at which deploy() called step s (0 when it has not).
EnterOf(s) ==
    LET es == {k \in At("enter") : trace[k].step = s}
    IN IF es = {} THEN 0 ELSE CHOOSE k \in es : TRUE

\* The position at which step s returned (past the end when it has not).
ResultOf(s) ==
    LET rs == {k \in At("result") : trace[k].step = s}
    IN IF rs = {} THEN Len(trace) + 1 ELSE CHOOSE k \in rs : TRUE

\* The processes started by step s.
StartsIn(s) ==
    IF EnterOf(s) = 0
    THEN {}
    ELSE {k \in At("start") : EnterOf(s) < k /\ k < ResultOf(s)}

\* The exits of the first "ollama --version", the one with check=False.
ProbeExits ==
    {k \in At("exit") : trace[k].cmd = CmdOllamaVersion /\ ~trace[k - 1].check}

(***************************************************************************)
(* C14.  install_ollama is idempotent: when the first version probe exits  *)
(* 0 the step runs no install command, the probe is the only process it    *)
(* starts, and it reports success.                                         *)
(***************************************************************************)
C14_InstalledRuntimeIsLeftAlone ==
    \A k \in ProbeExits :
        trace[k].rc = 0 =>
            /\ StartsOf(CmdInstallScript) = {}
            /\ StartsIn(Inst) = {k - 1}
            /\ Reported(Inst, TRUE)
            /\ ~Reported(Inst, FALSE)

\* The probe exited 0 and the run went on into the service step.
C14_Witness ==
    /\ \E k \in ProbeExits : trace[k].rc = 0
    /\ Reported(Inst, TRUE)
    /\ Len(Entered) >= 3

\* The starts of the second "ollama --version", the one with check=True.
VerifyStarts == {k \in StartsOf(CmdOllamaVersion) : trace[k].check}

\* The processes and host actions of the run, in order of occurrence.
IsHostAction(k) == trace[k].ch \in {"proc", "host"}

HostActions == {k \in 1..Len(trace) : IsHostAction(k)}

(***************************************************************************)
(* C15.  When the first version probe exits non-zero, install_ollama runs  *)
(* the install script once and then the version probe again; the step      *)
(* reports success only when that second probe succeeded; a failure of the *)
(* script or of the second probe makes the step report failure, nothing is *)
(* run again or run to clean up, and the run ends with an error event.     *)
(***************************************************************************)
C15_InstallThenVerify ==
    /\ \A k \in ProbeExits :
          trace[k].rc # 0 =>
              /\ Cardinality(StartsOf(CmdInstallScript)) = 1
              /\ \A j \in StartsOf(CmdInstallScript) : k < j
              /\ Reported(Inst, TRUE) =>
                    \E v \in VerifyStarts, j \in ReturnsOf(CmdOllamaVersion) :
                        /\ v < j
                        /\ trace[j].rc = 0
    /\ \A j \in ReturnsOf(CmdInstallScript) :
          /\ Cardinality(VerifyStarts) = 1
          /\ \A v \in VerifyStarts : j < v
    /\ RaisesOf(CmdInstallScript) # {} => VerifyStarts = {}
    /\ \A j \in RaisesOf(CmdInstallScript) \cup RaisesOf(CmdOllamaVersion) :
          /\ Reported(Inst, FALSE)
          /\ ~Reported(Inst, TRUE)
          /\ \A k \in HostActions : k < j
          /\ Cardinality(StartsOf(CmdInstallScript)) = 1
          /\ Cardinality(StartsIn(Inst)) <= 3
          /\ EndedWithError

\* The script ran and the second probe failed.
C15_Witness ==
    /\ ReturnsOf(CmdInstallScript) # {}
    /\ RaisesOf(CmdOllamaVersion) # {}
    /\ Exited

(***************************************************************************)
(* start_ollama_service, read off the trace.                               *)
(***************************************************************************)
\* What a process start or a host action does.
ActionKey(e) == IF e.type = "start" THEN e.cmd ELSE <<e.type>>

\* The process starts and host actions of step s, in order.
ActionsIn(s) ==
    IF EnterOf(s) = 0
    THEN <<>>
    ELSE LET body == SubSeq(trace, EnterOf(s) + 1, ResultOf(s) - 1)
             acts == SelectSeq(body, LAMBDA e : e.type \in {"start", "write", "sleep"})
         IN [n \in 1..Len(acts) |-> ActionKey(acts[n])]

\* The actions of a service step that runs to its end.
ServiceOrder ==
    <<CmdUseradd, <<"write">>, CmdMvUnit, CmdDaemonReload, CmdEnable, CmdStart,
      <<"sleep">>, CmdStatus>>

(***************************************************************************)
(* C16.  The actions of the service step come in the order: account        *)
(* creation, unit write (and move into place), daemon reload, enable,      *)
(* start, the fixed settling delay, active-state check; the active-state   *)
(* check is started only after the start command succeeded and the delay   *)
(* has passed; the step reports success only when the active-state check   *)
(* succeeded.                                                              *)
(***************************************************************************)
C16_ServiceActionsInOrder ==
    /\ LET acts == ActionsIn(Svc)
       IN /\ Len(acts) <= Len(ServiceOrder)
          /\ acts = SubSeq(ServiceOrder, 1, Len(acts))
    /\ \A k \in StartsOf(CmdStatus) :
          \E r \in ReturnsOf(CmdStart), d \in At("sleep") :
              /\ trace[r].rc = 0
              /\ r < d
              /\ d < k
              /\ trace[d].secs = SettleSeconds
    /\ Reported(Svc, TRUE) =>
          \E j \in ReturnsOf(CmdStatus) :
              /\ trace[j].rc = 0
              /\ j < ResultOf(Svc)

\* The service step ran to its end and reported success.
C16_Witness ==
    /\ Reported(Svc, TRUE)
    /\ ActionsIn(Svc) = ServiceOrder

\* The exits of useradd with a non-zero status.
UseraddFailures == {k \in At("exit") : trace[k].cmd = CmdUseradd /\ trace[k].rc # 0}

\* The writes of the unit file that failed.
FailedWrites == {k \in At("write") : ~trace[k].ok}

\* The commands of the service step that run in the default mode.
CheckedServiceCommands == {CmdMvUnit, CmdDaemonReload, CmdEnable, CmdStart, CmdStatus}

(***************************************************************************)
(* C17.  A non-zero exit of the account creation does not fail the service *)
(* step: run_command returns, the unit file is written next, the step      *)
(* fails only on the write or on one of the later commands, and it can     *)
(* still succeed, with enable, start and status issued.                    *)
(***************************************************************************)
C17_AccountCreationFailureTolerated ==
    /\ RaisesOf(CmdUseradd) = {}
    /\ \A k \in UseraddFailures :
          /\ trace[ReturnPoint(k)].type = "return"
          /\ trace[ReturnPoint(k)].cmd = CmdUseradd
          /\ trace[ReturnPoint(k) + 1].type = "write"
          /\ Reported(Svc, FALSE) =>
                \/ FailedWrites # {}
                \/ \E c \in CheckedServiceCommands : RaisesOf(c) # {}
          /\ (FailedWrites = {} /\ \A c \in CheckedServiceCommands : RaisesOf(c) = {}) =>
                LET acts == ActionsIn(Svc)
                IN acts = SubSeq(ServiceOrder, 1, Len(acts))

\* useradd exited non-zero and the service step succeeded all the same.
C17_Witness ==
    /\ UseraddFailures # {}
    /\ StartsOf(CmdEnable) # {}
    /\ StartsOf(CmdStart) # {}
    /\ StartsOf(CmdStatus) # {}
    /\ Reported(Svc, TRUE)

(***************************************************************************)
(* Failed runs, read off the trace.                                        *)
(***************************************************************************)
\* The record at k is an action that failed: a command run in the default
\* mode (or the interpreter probe) that exited non-zero, or a failed write.
IsFailure(k) ==
    \/ trace[k].type = "exit" /\ trace[k].rc # 0 /\ trace[k - 1].check
    \/ trace[k].type = "write" /\ ~trace[k].ok

\* The last process record or host action before position k.
LastActionBefore(k) ==
    CHOOSE a \in 1..(k - 1) :
        /\ IsHostAction(a)
        /\ \A b \in (a + 1)..(k - 1) : ~IsHostAction(b)

\* The pulls started, in order.
PullStarts ==
    LET ps == SelectSeq(trace, LAMBDA e : e.type = "start" /\ e.cmd[1] = "ollama pull ")
    IN [n \in 1..Len(ps) |-> ps[n].cmd]

(***************************************************************************)
(* C18.  A failure of the unit write, of enable, of start or of the        *)
(* active-state check ends the run with an error event.  On every failed   *)
(* run nothing is run again and nothing is run to undo what was created:   *)
(* the last thing the run does to the host is the action that failed, each *)
(* call site has started its command at most once (the one failure a run   *)
(* goes on after is that of the curl probe, answered by the install of     *)
(* curl, another command) and each entry of the                            *)
(* models list has been pulled at most once, so the account, the unit file *)
(* and the models created before the failure are there at the exit.        *)
(***************************************************************************)
C18_FailureLeavesHostAsIs ==
    /\ (\/ FailedWrites # {}
        \/ \E c \in {CmdEnable, CmdStart, CmdStatus} : RaisesOf(c) # {}) =>
          /\ Reported(Svc, FALSE)
          /\ EndedWithError
    /\ \A k \in At("result") :
          ~trace[k].ok =>
              /\ \A a \in (k + 1)..Len(trace) : ~IsHostAction(a)
              /\ LET f == LastActionBefore(k)
                 IN /\ IsFailure(f)
                    /\ \A a \in 1..(f - 1) :
                          (IsHostAction(a) /\ IsFailure(a)) =>
                              /\ trace[a].cmd = CmdCurlVersion
                              /\ StartsOf(CmdAptCurl) # {}
              /\ LET starts == At("start")
                 IN \A a \in starts, b \in starts :
                        (a < b /\ trace[a].cmd = trace[b].cmd) =>
                            \/ trace[a].check # trace[b].check
                            \/ trace[a].cmd[1] = "ollama pull "
              /\ Len(PullStarts) <= Len(config.models)

\* The active-state check failed after the account and the unit file were
\* created.
C18_Witness ==
    /\ RaisesOf(CmdStatus) # {}
    /\ \E k \in ReturnsOf(CmdUseradd) : trace[k].rc = 0
    /\ \E k \in At("write") : trace[k].ok
    /\ Exited

(***************************************************************************)
(* download_models, read off the trace.                                    *)
(***************************************************************************)
\* The positions at which a pull was started.
PullPositions == {k \in At("start") : trace[k].cmd[1] = "ollama pull "}

\* The position at which the n-th pull of the run was started.
PullAt(n) == CHOOSE k \in PullPositions : Cardinality({j \in PullPositions : j <= k}) = n

\* The number of entries of the models list that name model m.
EntriesOf(m) ==
    IF pc = "main"
    THEN 0
    ELSE Cardinality({n \in 1..Len(config.models) : config.models[n] = m})

\* The pulls follow the list: the n-th pull is that of the n-th entry; it
\* comes right after the progress event of that entry and the two log
\* events of the pull; it is started only after the pull before it returned
\* with status 0.
PullsFollowTheList ==
    LET models == IF pc = "main" THEN <<>> ELSE config.models
    IN /\ Len(PullStarts) <= Len(models)
       /\ \A n \in 1..Len(PullStarts) :
             LET k == PullAt(n)
                 model == models[n]
             IN /\ trace[k].cmd = CmdPull(model)
                /\ trace[k].check
                /\ IsLog(k - 1, "info", <<"Executing command: ">> \o CmdPull(model))
                /\ IsLog(k - 2, "info", <<"Downloading model: ", model>>)
                /\ trace[k - 3] = ProgressEvent(ModelProgress(n - 1, Len(models)),
                                                <<"Downloading model ", model>>)
                /\ n > 1 =>
                      \E j \in ReturnsOf(CmdPull(models[n - 1])) :
                          /\ PullAt(n - 1) < j
                          /\ j < k
                          /\ trace[j].rc = 0

(***************************************************************************)
(* C19, as claimed.  download_models starts the pulls in the order of the  *)
(* models list, each model at most once, each pull right after the         *)
(* progress event of its model, and the pull of a model only after the     *)
(* pull of the model before it returned successfully.                      *)
(***************************************************************************)
C19_EachModelPulledOnce ==
    /\ PullsFollowTheList
    /\ \A m \in ModelNames : Cardinality(StartsOf(CmdPull(m))) <= 1

(***************************************************************************)
(* C19, amended.  download_models starts one pull for each entry of the    *)
(* models list, in the order of the list: at most one pull per entry, so a *)
(* model the list names twice is pulled twice; each pull comes right after *)
(* the progress event of its entry (and the two log events of the pull),   *)
(* and only after the pull of the entry before it returned successfully.   *)
(***************************************************************************)
C19_EachEntryPulledOnce ==
    /\ PullsFollowTheList
    /\ \A m \in ModelNames :
          Cardinality(StartsOf(CmdPull(m))) <= EntriesOf(m)

\* The list names one model twice and both pulls have been started.
C19_Witness ==
    /\ Len(PullStarts) = 2
    /\ PullStarts[1] = PullStarts[2]
    /\ \E m \in ModelNames : EntriesOf(m) = 2

\* The positions at which run_command raised for a pull.
PullRaises == {j \in At("raise") : trace[j].cmd[1] = "ollama pull "}

(***************************************************************************)
(* C20.  The download fails fast: when the pull of the entry at position k *)
(* fails, the first one included, no entry after k is pulled and nothing   *)
(* else is started, the verification is not entered, and the run ends with *)
(* an error event and exit status 1.                                       *)
(***************************************************************************)
C20_FirstPullFailureEndsRun ==
    \A j \in PullRaises :
        LET k == Len(PullStarts)
        IN /\ trace[j].cmd = CmdPull(config.models[k])
           /\ PullAt(k) < j
           /\ k = i + 1
           /\ \A a \in HostActions : a < j
           /\ Cardinality(PullRaises) = 1
           /\ Reported(Dl, FALSE)
           /\ ~Reported(Dl, TRUE)
           /\ Entered = <<Req, Inst, Svc, Dl>>
           /\ EndedWithError

\* The list has two entries and the pull of the first one failed.
C20_Witness ==
    /\ PullRaises # {}
    /\ Len(PullStarts) = 1
    /\ Len(config.models) = 2
    /\ Exited

(***************************************************************************)
(* The progress values of a run, read off the trace.                       *)
(***************************************************************************)
\* The values of the progress events, in the order of their emission.
ProgressValues ==
    LET ps == SelectSeq(trace, LAMBDA e : e.type = "progress")
    IN [n \in 1..Len(ps) |-> ps[n].progress]

\* A sequence of numbers that never goes down.
NonDecreasing(vs) == \A n \in 1..(Len(vs) - 1) : vs[n] <= vs[n + 1]

\* The run has ended with the completion event.
Succeeded == Exited /\ At("complete") # {}

(***************************************************************************)
(* C21.  In every successful run, whatever the length of the models list,  *)
(* the progress values in the order of their emission never go down and    *)
(* each of them lies in 0..100.                                            *)
(***************************************************************************)
C21_ProgressMonotoneAndBounded ==
    Succeeded =>
        LET vs == ProgressValues
        IN /\ NonDecreasing(vs)
           /\ \A n \in 1..Len(vs) : vs[n] \in 0..100
           /\ Len(vs) = 7 + Len(config.models)
           /\ vs[1] = 0
           /\ vs[Len(vs)] = 100

\* A successful run over the longest models list.
C21_Witness ==
    /\ Succeeded
    /\ Len(config.models) = MaxModels
    /\ Len(PullStarts) = MaxModels

(***************************************************************************)
(* C22.  For a models list of length n >= 1 the progress value emitted     *)
(* before the pull of the model at 0-based position i is                   *)
(* 60 + floor(30 * (i + 1) / n): each such value lies in 60..90, the       *)
(* values never go down with i, the value of the last model is 90, and two *)
(* models give 75 and 90.                                                  *)
(***************************************************************************)
C22_PerModelProgressBand ==
    LET n == IF pc = "main" THEN 0 ELSE Len(config.models)
        vs == [m \in 1..Len(PullStarts) |-> trace[PullAt(m) - 3].progress]
    IN /\ \A m \in 1..Len(vs) :
             /\ trace[PullAt(m) - 3].type = "progress"
             /\ 30 * m - n < (vs[m] - 60) * n
             /\ (vs[m] - 60) * n <= 30 * m
             /\ vs[m] \in 60..90
       /\ NonDecreasing(vs)
       /\ Len(vs) = n => (n = 0 \/ vs[n] = 90)
       /\ (n = 2 /\ Len(vs) = 2) => vs = <<75, 90>>

\* Both pulls of a list of two models have been started.
C22_Witness ==
    /\ Len(PullStarts) = 2
    /\ trace[PullAt(1) - 3].progress = 75
    /\ trace[PullAt(2) - 3].progress = 90

(***************************************************************************)
(* verify_installation, read off the trace.                                *)
(***************************************************************************)
\* The starts of the health check: the request for /api/tags.
HealthStarts == {k \in At("start") : trace[k].cmd[Len(trace[k].cmd)] = "/api/tags"}

\* The host and the port a health check command sends its request to.
RequestHost(cmd) ==
    IF cmd[1] = "curl -f http://localhost:" THEN "localhost" ELSE cmd[2]

RequestPort(cmd) == cmd[Len(cmd) - 1]

(***************************************************************************)
(* C23.  The verification sends its health check to the configured host    *)
(* and the configured port, then lists the installed models; a failure of  *)
(* either command makes the step report failure and ends the run with an   *)
(* error event; on success a log event with the inventory of models is     *)
(* emitted before the step returns.                                        *)
(***************************************************************************)
C23_HealthCheckAtConfiguredHost ==
    /\ \A k \in HealthStarts :
          /\ RequestHost(trace[k].cmd) = config.host
          /\ RequestPort(trace[k].cmd) = ToString(config.port)
          /\ \A j \in StartsOf(CmdList) : k < j
    /\ \A j \in At("raise") :
          (trace[j].cmd = CmdList \/ trace[j].cmd[Len(trace[j].cmd)] = "/api/tags") =>
              /\ Reported(Ver, FALSE)
              /\ EndedWithError
    /\ Reported(Ver, TRUE) =>
          \E m \in EnterOf(Ver)..ResultOf(Ver) : IsLog(m, "info", InventoryMessage)

(***************************************************************************)
(* C24.  Execution is synchronous: at most one external command is in      *)
(* flight at any point of a run; while a command is in flight its start is *)
(* the last record of the run, so that no event is emitted and no command  *)
(* is started before it has completed; every other start is followed at    *)
(* once by the exit of its own command.                                    *)
(***************************************************************************)
C24_OneCommandAtATime ==
    /\ Len(inflight) <= 1
    /\ \A k \in At("start") :
          IF k = Len(trace)
          THEN /\ inflight = <<[cmd |-> trace[k].cmd, check |-> trace[k].check]>>
               /\ ~Exited
          ELSE /\ trace[k + 1].type = "exit"
               /\ trace[k + 1].cmd = trace[k].cmd
    /\ inflight # <<>> => (Len(trace) > 0 /\ trace[Len(trace)].type = "start")
    /\ Cardinality(At("start")) = Cardinality(At("exit")) + Len(inflight)

\* The second pull is in flight, after the first one has completed.
C24_Witness ==
    /\ Len(inflight) = 1
    /\ Len(PullStarts) = 2
    /\ inflight[1].cmd = PullStarts[2]
    /\ ReturnsOf(PullStarts[1]) # {}

(***************************************************************************)
(* The lines of the output stream.                                         *)
(***************************************************************************)
\* The positions of the line feeds of a printed text.
LineFeeds(text) == {n \in 1..Len(text) : text[n] = LF}

\* The text is one line: its only line feed is its last character.
OneLine(text) == LineFeeds(text) = {Len(text)}

C26_EmptyListDownloadsNothing ==
    (pc # "main" /\ config.models = <<>>) =>
        /\ PullStarts = <<>>
        /\ EnterOf(Dl) # 0 =>
              LET e == EnterOf(Dl)
              IN /\ trace[e + 1] = ProgressEvent(60, <<"Downloading LLM models">>)
                 /\ trace[e + 2] = StepResult(Dl, TRUE)
                 /\ trace[e + 3] = StepEnter(Ver)
                 /\ trace[e + 4].type = "progress"
                 /\ trace[e + 4].progress = 95
                 /\ ~Reported(Dl, FALSE)

\* Scenario A: a run with an empty models list has completed.
C26_Witness ==
    /\ Succeeded
    /\ config.models = <<>>
    /\ Reported(Dl, TRUE)

(***************************************************************************)
(* C27.  In every run that fails because a step reported failure, that     *)
(* step has emitted an error-level log event before the error event of     *)
(* the run: the record right before the failure report is an error log of  *)
(* the step, so the error event is never the only record of the failure.   *)
(***************************************************************************)
C27_FailureIsLoggedByItsStep ==
    /\ \A k \in At("result") :
          ~trace[k].ok =>
              /\ EnterOf(trace[k].step) < k - 1
              /\ trace[k - 1].type = "log"
              /\ trace[k - 1].level = "error"
              /\ trace[k - 1].ch = "stdout"
    /\ \A x \in At("error") :
          \E m \in 1..(x - 1) : trace[m].type = "log" /\ trace[m].level = "error"

\* The write of the unit file failed: no command raised in the step, and
\* the run has ended.
C27_Witness ==
    /\ FailedWrites # {}
    /\ Reported(Svc, FALSE)
    /\ \A j \in At("raise") : j < EnterOf(Svc)
    /\ Exited

(***************************************************************************)
(* The milestones of the progress.                                         *)
(***************************************************************************)
\* The progress values step s emits.
StepMilestones(s) ==
    CASE s = Req -> {5}
      [] s = Inst -> {20}
      [] s = Svc -> {40}
      [] s = Dl -> {60} \cup {ModelProgress(k, Len(config.models)) :
                                 k \in 0..(Len(config.models) - 1)}
      [] s = Ver -> {95}

\* The step that is running when the record at k is appended ("deploy"
\* outside the steps).
StepAt(k) ==
    IF \E e \in 1..(k - 1) : trace[e].type = "enter" /\ ResultOf(trace[e].step) > k
    THEN trace[CHOOSE e \in 1..(k - 1) :
                   trace[e].type = "enter" /\ ResultOf(trace[e].step) > k].step
    ELSE "deploy"

(***************************************************************************)
(* C28.  The progress value 100 is emitted exactly in the successful runs, *)
(* once, as the event right before the completion event.  In a failed run  *)
(* every progress value is the opening value 0 of deploy() or a milestone  *)
(* of a step entered so far (of the step running when it is emitted), it   *)
(* is at most 95, and the values up to the failure never go down.          *)
(***************************************************************************)
C28_HundredOnlyOnSuccess ==
    LET hundreds == {k \in At("progress") : trace[k].progress = 100}
    IN /\ (hundreds # {}) <=> Succeeded
       /\ Cardinality(hundreds) <= 1
       /\ \A k \in hundreds : (k + 1) \in At("complete")
       /\ \A k \in At("complete") : (k - 1) \in hundreds
       /\ SomeStepFailed =>
             /\ NonDecreasing(ProgressValues)
             /\ \A k \in At("progress") :
                   /\ trace[k].progress <= 95
                   /\ IF StepAt(k) = "deploy"
                      THEN trace[k].progress = 0 /\ k = 1 + Cardinality(Logged)
                      ELSE trace[k].progress \in StepMilestones(StepAt(k))

\* A run failed in the download of its second model.
C28_Witness ==
    /\ SomeStepFailed
    /\ Reported(Dl, FALSE)
    /\ Len(PullStarts) = 2
    /\ ProgressValues = <<0, 5, 20, 40, 60, 75, 90>>

(***************************************************************************)
(* The call sites of external commands.                                    *)
(***************************************************************************)
\* The commands deploy() can start apart from the pulls, with their modes.
CallSites ==
    {<<CmdPython, TRUE>>, <<CmdCurlVersion, TRUE>>, <<CmdAptCurl, TRUE>>,
     <<CmdOllamaVersion, FALSE>>, <<CmdInstallScript, TRUE>>, <<CmdOllamaVersion, TRUE>>,
     <<CmdUseradd, FALSE>>, <<CmdMvUnit, TRUE>>, <<CmdDaemonReload, TRUE>>,
     <<CmdEnable, TRUE>>, <<CmdStart, TRUE>>, <<CmdStatus, TRUE>>,
     <<CmdList, TRUE>>}

\* The call site of the start at k: a pull, the health check, or a member
\* of CallSites.
IsPull(cmd) == cmd[1] = "ollama pull "

IsHealth(cmd) == cmd[Len(cmd)] = "/api/tags"

\* Each call site has started its command at most once, the pulls are at
\* most one per entry of the models list.
CommandsBounded ==
    LET starts == At("start")
    IN /\ \A a \in starts, b \in starts :
             (a < b /\ trace[a].cmd = trace[b].cmd) =>
                 \/ trace[a].check # trace[b].check
                 \/ IsPull(trace[a].cmd)
       /\ \A a \in starts :
             \/ IsPull(trace[a].cmd)
             \/ IsHealth(trace[a].cmd)
             \/ <<trace[a].cmd, trace[a].check>> \in CallSites
       /\ Len(PullStarts) <= (IF pc = "main" THEN 0 ELSE Len(config.models))
       /\ Cardinality(starts) <= Cardinality(CallSites) + 1 + Len(PullStarts)

\* No terminal event has been emitted.
NoTerminalEvent == At("complete") \cup At("error") = {}

(***************************************************************************)
(* C29.  When every external command returns, every run ends: it reaches   *)
(* its exit with a terminal event, after a bounded number of commands      *)
(* (each call site at most once, one pull per entry of the models list).   *)
(* While a command has not returned no terminal event has been emitted,    *)
(* and nothing happens before its exit, so a command that never returns    *)
(* leaves the run without a terminal event for ever.                       *)
(***************************************************************************)
C29_TerminatesIfCommandsReturn ==
    /\ <>(Exited /\ ~NoTerminalEvent)
    /\ [](CommandsBounded)
    /\ [](inflight # <<>> => (NoTerminalEvent /\ ~Exited))
    /\ [][inflight # <<>> =>
             /\ Len(trace') > Len(trace)
             /\ trace'[Len(trace) + 1].type = "exit"
             /\ trace'[Len(trace) + 1].cmd = inflight[1].cmd]_vars

\* A run that started every command it can start has completed.
C29_Witness ==
    /\ Succeeded
    /\ Len(PullStarts) = MaxModels
    /\ Cardinality(At("start")) = Cardinality(CallSites) + 1 + MaxModels

(***************************************************************************)
(* C30.  The requirements check reports success exactly when the           *)
(* interpreter probe succeeded and either the curl probe or the install of *)
(* curl succeeded; after a successful install curl is not probed again:    *)
(* the step returns True right after the install command returned.         *)
(***************************************************************************)
C30_RequirementsSuccessCondition ==
    LET pythonOk == \E k \in At("exit") : trace[k].cmd = CmdPython /\ trace[k].rc = 0
        curlOk == \E j \in ReturnsOf(CmdCurlVersion) : trace[j].rc = 0
        aptOk == \E j \in ReturnsOf(CmdAptCurl) : trace[j].rc = 0
    IN /\ Reported(Req, TRUE) <=> (pythonOk /\ (curlOk \/ aptOk))
       /\ Reported(Req, FALSE) <=>
             \/ \E k \in At("exit") : trace[k].cmd = CmdPython /\ trace[k].rc # 0
             \/ RaisesOf(CmdAptCurl) # {}
       /\ Cardinality(StartsOf(CmdCurlVersion)) <= 1
       /\ \A j \in ReturnsOf(CmdAptCurl) :
             /\ trace[j + 1] = StepResult(Req, TRUE)
             /\ \A k \in StartsOf(CmdCurlVersion) : k < j
             /\ RaisesOf(CmdCurlVersion) # {}

\* The curl probe failed, the install succeeded, and the step reported
\* success.
C30_Witness ==
    /\ RaisesOf(CmdCurlVersion) # {}
    /\ ReturnsOf(CmdAptCurl) # {}
    /\ Reported(Req, TRUE)
    /\ Len(Entered) >= 2

====
